---- MODULE Spec2Model ----
(***************************************************************************)
(* Musical Text: sentence detection, markdown list markers, word counting  *)
(* and length classification (sentence-detection.ts).                      *)
(*                                                                         *)
(* A JavaScript string is a sequence of one-character strings.  Offsets    *)
(* are 0-based as in the source: the character at offset k of s is s[k+1], *)
(* and Sub(s, a, b) is s.substring(a, b).                                  *)
(***************************************************************************)
EXTENDS Integers, Sequences, FiniteSets, TLC

VARIABLES
    text,           \* computeDecorations: argument text
    settings,       \* argument settings: the three thresholds
    offset,         \* argument offset
    lines,          \* text.split(/(\r?\n)/)
    idx,            \* position of the for-of loop in lines (1-based)
    currentOffset,  \* let currentOffset
    builder,        \* ranges added to the RangeSetBuilder so far
    result,         \* builder.finish()
    pc,             \* where the call stands
    wordCount,      \* getClassForSentence: argument wordCount
    className,      \* getClassForSentence: returned class
    sentence,       \* countWords: argument sentence
    count,          \* countWords: returned number
    line,           \* detectMarkdownListMarker: argument line
    listMarkerMatch, \* detectMarkdownListMarker: returned value
    scanLine,       \* the while loop: processedLine, the line sentenceRegex is run over
    lastIndex,      \* sentenceRegex.lastIndex
    matches,        \* the matches exec has returned so far, each <<index, end>>
    earlier,        \* an earlier call of computeDecorations and what it returned
    given,          \* validateThresholds: the thresholds it was started with
    leaves,         \* the editor views (markdown leaves) that are open
    active,         \* the view of the active MarkdownView, 0 when there is none
    editorHighlightingMap,    \* plugin.editorHighlightingMap, "unset" for no entry
    sentenceHighlighterField, \* the decorations each view holds
    doc,            \* the document of each view
    visibleRanges,  \* the visible range <<from, to>> of each view (a list of
                    \* ranges where the update listener is followed step by step)
    toggled,        \* the views toggleHighlighting has acted on
    defaultHighlightingEnabled, \* settings.defaultHighlightingEnabled
    data,           \* the thresholds saveData has stored
    passed,         \* the thresholds the last step gave to computeDecorations
    limits,         \* the limits of the sliders of the settings tab, when shown
    backgroundColor, \* getContrastingTextColor: argument, the channels <<r, g, b>>
    newLightness,   \* getContrastingTextColor: let newLightness
    updates,        \* the updates of each view its update listener has yet to see
    transactions,   \* number of document and viewport changes of each view
    dispatches      \* number of dispatches each view got from its update listener

vars == <<text, settings, offset, lines, idx, currentOffset, builder, result, pc,
          wordCount, className, sentence, count, line, listMarkerMatch,
          scanLine, lastIndex, matches, earlier, given,
          leaves, active, editorHighlightingMap, sentenceHighlighterField, doc,
          visibleRanges, toggled, defaultHighlightingEnabled, data, passed, limits,
          backgroundColor, newLightness, updates, transactions, dispatches>>

decorVars == <<text, settings, offset, lines, idx, currentOffset, builder, result>>

classVars == <<wordCount, className>>

wordVars == <<sentence, count>>

markerVars == <<line, listMarkerMatch>>

scanVars == <<scanLine, lastIndex, matches>>

\* the variables the functions of sentence-detection.ts do not touch
editorVars ==
    <<leaves, active, editorHighlightingMap, sentenceHighlighterField, doc,
      visibleRanges, toggled>>

tabVars == <<defaultHighlightingEnabled, data, passed, limits>>

colorVars == <<backgroundColor, newLightness>>

listenerVars == <<updates, transactions, dispatches>>

lateVars == <<colorVars, listenerVars>>

restVars == <<scanVars, earlier, given, editorVars, tabVars, lateVars>>

---------------------------------------------------------------------------
(* Character classes of the regular expressions.                           *)

Letters ==
    {"a", "b", "c", "d", "e", "f", "g", "h", "i", "j", "k", "l", "m",
     "n", "o", "p", "q", "r", "s", "t", "u", "v", "w", "x", "y", "z",
     "A", "B", "C", "D", "E", "F", "G", "H", "I", "J", "K", "L", "M",
     "N", "O", "P", "Q", "R", "S", "T", "U", "V", "W", "X", "Y", "Z"}

Digits == {"0", "1", "2", "3", "4", "5", "6", "7", "8", "9"}

\* \s and String.prototype.trim, restricted to the characters the model uses
Whitespace == {" ", "\t", "\n", "\r"}

\* the characters . does not match
LineTerminators == {"\n", "\r"}

\* [.!?]
Terminals == {".", "!", "?"}

\* [-*+]
Bullets == {"-", "*", "+"}

\* ['’]: the second is U+2019, written here by its code point
Apostrophes == {"'", "U+2019"}

---------------------------------------------------------------------------
(* String helpers.                                                         *)

Min(S) == CHOOSE m \in S : \A n \in S : m <= n

Sub(s, a, b) == SubSeq(s, a + 1, b)

\* offset just past the maximal run of characters of class C that starts at offset i
RunEnd(s, i, C) ==
    CHOOSE k \in i..Len(s) :
        /\ \A j \in (i + 1)..k : s[j] \in C
        /\ (k = Len(s) \/ s[k + 1] \notin C)

\* the same for a negated class [^...]
RunEndNot(s, i, C) ==
    CHOOSE k \in i..Len(s) :
        /\ \A j \in (i + 1)..k : s[j] \notin C
        /\ (k = Len(s) \/ s[k + 1] \in C)

\* one character of class C at offset i: the offset after it, or -1
Lit(s, i, C) == IF i >= 0 /\ i < Len(s) /\ s[i + 1] \in C THEN i + 1 ELSE -1

\* C* (greedy) at offset i, or -1 when what precedes it failed
Star(s, i, C) == IF i < 0 THEN -1 ELSE RunEnd(s, i, C)

\* C+ (greedy) at offset i, or -1
Plus(s, i, C) == IF Lit(s, i, C) < 0 THEN -1 ELSE RunEnd(s, i, C)

trimStart(s) == Sub(s, RunEnd(s, 0, Whitespace), Len(s))

trim(s) ==
    LET t == trimStart(s)
        e == IF Len(t) = 0 THEN 0
             ELSE CHOOSE k \in 1..Len(t) :
                      /\ t[k] \notin Whitespace
                      /\ \A j \in (k + 1)..Len(t) : t[j] \in Whitespace
    IN  SubSeq(t, 1, e)

\* text.split(/(\r?\n)/): the lines and, between them, the captured line breaks
RECURSIVE split(_)
split(s) ==
    LET breaks == {k \in 0..(Len(s) - 1) : s[k + 1] = "\n"}
    IN  IF breaks = {} THEN <<s>>
        ELSE LET n == Min(breaks)
                 b == IF n > 0 /\ s[n] = "\r" THEN n - 1 ELSE n
             IN  <<Sub(s, 0, b), Sub(s, b, n + 1)>> \o split(Sub(s, n + 1, Len(s)))

---------------------------------------------------------------------------
(* countWords: the matches of /[A-Za-z]+(?:['’][A-Za-z]+)?/g               *)

RECURSIVE countFrom(_, _)
countFrom(s, i) ==
    LET starts == {k \in i..(Len(s) - 1) : s[k + 1] \in Letters}
    IN  IF starts = {} THEN 0
        ELSE LET a == Min(starts)
                 b == RunEnd(s, a, Letters)
                 c == IF Lit(s, Lit(s, b, Apostrophes), Letters) >= 0
                      THEN RunEnd(s, b + 1, Letters)
                      ELSE b
             IN  1 + countFrom(s, c)

\* faulty variant of countWords: the matches of /\b\w+\b/g (the earlier rule),
\* which counts digit runs and splits a word at its apostrophe
countWordChars(s) ==
    Cardinality({k \in 1..Len(s) :
        /\ s[k] \in Letters \cup Digits \cup {"_"}
        /\ (k = 1 \/ s[k - 1] \notin Letters \cup Digits \cup {"_"})})

countWords(s) == countFrom(s, 0)

---------------------------------------------------------------------------
(* getClassForSentence                                                     *)

\* faulty variant of getClassForSentence: a count equal to shortThreshold is mini
getClassOffByOne(n, st) ==
    IF n <= st.shortThreshold THEN "sh-mini"
    ELSE IF n <= st.mediumThreshold THEN "sh-short"
    ELSE IF n <= st.longThreshold THEN "sh-medium"
    ELSE "sh-long"

getClassForSentence(n, st) ==
    IF n < st.shortThreshold THEN "sh-mini"
    ELSE IF n <= st.mediumThreshold THEN "sh-short"
    ELSE IF n <= st.longThreshold THEN "sh-medium"
    ELSE "sh-long"

---------------------------------------------------------------------------
(* detectMarkdownListMarker                                                *)

null == [matched |-> FALSE, content |-> <<>>, markerLength |-> 0]

\* (.*)$ at offset k: the rest of the line, which must hold no line terminator
restMatches(s, k) == k >= 0 /\ \A j \in (k + 1)..Len(s) : s[j] \notin LineTerminators

\* faulty variant of checkboxMarker: the checkbox rule stops after the bullet,
\* as the unordered rule does, and leaves the bracket pair in the content
checkboxAsUnordered(s) == Plus(s, Lit(s, Star(s, 0, Whitespace), Bullets), Whitespace)

\* end of group 1 of /^(\s*[-*+]\s*\[[xX\s]\]\s*)(.*)$/, or -1
checkboxMarker(s) ==
    LET bullet == Lit(s, Star(s, 0, Whitespace), Bullets)
        open == Lit(s, Star(s, bullet, Whitespace), {"["})
        mark == Lit(s, open, {"x", "X"} \cup Whitespace)
        close == Lit(s, mark, {"]"})
    IN  Star(s, close, Whitespace)

\* end of group 4 of /^(\s*)(\d+)(\.)(\s+)(.*)$/, or -1
orderedMarker(s) ==
    LET number == Plus(s, Star(s, 0, Whitespace), Digits)
        dot == Lit(s, number, {"."})
    IN  Plus(s, dot, Whitespace)

\* end of group 1 of /^(\s*[-*+]\s+)(.*)$/, or -1
unorderedMarker(s) ==
    LET bullet == Lit(s, Star(s, 0, Whitespace), Bullets)
    IN  Plus(s, bullet, Whitespace)

\* faulty variant of markerResult: the content is trimmed, the marker length is not
\* adjusted (the earlier sentence-detection.ts)
markerResultTrimmed(s, k) ==
    [matched |-> TRUE, content |-> trim(Sub(s, k, Len(s))), markerLength |-> k]

markerResult(s, k) == [matched |-> TRUE, content |-> Sub(s, k, Len(s)), markerLength |-> k]

\* faulty variant of detectMarkdownListMarker: the unordered rule is tried before
\* the checkbox rule
detectUnorderedFirst(s) ==
    IF restMatches(s, unorderedMarker(s)) THEN markerResult(s, unorderedMarker(s))
    ELSE IF restMatches(s, orderedMarker(s)) THEN markerResult(s, orderedMarker(s))
    ELSE IF restMatches(s, checkboxMarker(s)) THEN markerResult(s, checkboxMarker(s))
    ELSE null

detectMarkdownListMarker(s) ==
    IF restMatches(s, checkboxMarker(s)) THEN markerResult(s, checkboxMarker(s))
    ELSE IF restMatches(s, orderedMarker(s)) THEN markerResult(s, orderedMarker(s))
    ELSE IF restMatches(s, unorderedMarker(s)) THEN markerResult(s, unorderedMarker(s))
    ELSE null

---------------------------------------------------------------------------
(* sentenceRegex = /([^.!?]*[.!?]+\s*|[^.!?\r\n]+(?=\r?\n|$))/g            *)

\* faulty variant of matchAt: one terminal character ends the sentence, [.!?]
\* instead of [.!?]+
matchAtOneTerminal(s, i) ==
    LET puncts == {k \in i..(Len(s) - 1) : s[k + 1] \in Terminals}
        r == RunEndNot(s, i, Terminals \cup LineTerminators)
    IN  IF puncts # {}
        THEN RunEnd(s, Min(puncts) + 1, Whitespace)
        ELSE IF r > i /\ (r = Len(s) \/ s[r + 1] \in LineTerminators) THEN r ELSE -1

\* faulty variant of matchAt: the second alternative takes [^.!?\r\n]* and so
\* matches the empty string before a line end
matchAtEmpty(s, i) ==
    LET puncts == {k \in i..(Len(s) - 1) : s[k + 1] \in Terminals}
        r == RunEndNot(s, i, Terminals \cup LineTerminators)
    IN  IF puncts # {}
        THEN RunEnd(s, RunEnd(s, Min(puncts), Terminals), Whitespace)
        ELSE IF r = Len(s) \/ s[r + 1] \in LineTerminators THEN r ELSE -1

\* end offset of the match that starts at offset i, or -1
matchAt(s, i) ==
    LET puncts == {k \in i..(Len(s) - 1) : s[k + 1] \in Terminals}
        r == RunEndNot(s, i, Terminals \cup LineTerminators)
    IN  IF puncts # {}
        THEN RunEnd(s, RunEnd(s, Min(puncts), Terminals), Whitespace)
        ELSE IF /\ r > i
                /\ \/ r = Len(s)
                   \/ s[r + 1] = "\n"
                   \/ (s[r + 1] = "\r" /\ Lit(s, r + 1, {"\n"}) >= 0)
             THEN r
             ELSE -1

\* sentenceRegex.exec(s) with lastIndex = from
exec(s, from) ==
    LET starts == {i \in from..Len(s) : matchAt(s, i) >= 0}
    IN  IF starts = {} THEN [found |-> FALSE, index |-> 0, end |-> 0]
        ELSE [found |-> TRUE, index |-> Min(starts), end |-> matchAt(s, Min(starts))]

---------------------------------------------------------------------------
(* computeDecorations                                                      *)

\* a range of the builder; sentence is the trimmed sentence that was counted
\* and classified (kept for the position claims, not part of the Decoration)
Range(from, to, class, counted) ==
    [from |-> from, to |-> to, class |-> class, sentence |-> counted]

\* faulty variant of processedLineOffsetOf: the marker length is not added
processedLineOffsetNoMarker(cur, m) == cur

\* let processedLineOffset, after the list marker test
processedLineOffsetOf(cur, m) == IF m.matched THEN cur + m.markerLength ELSE cur

\* faulty variant of sentenceStartOf: the caller's offset is not added
sentenceStartNoOffset(processedLineOffset, index, off) == processedLineOffset + index

\* faulty variant of sentenceStartOf: the caller's offset is added twice
sentenceStartTwice(processedLineOffset, index, off) == processedLineOffset + index + off + off

\* const sentenceStart
sentenceStartOf(processedLineOffset, index, off) == processedLineOffset + index + off

\* faulty variant of advanced: the cursor is left where it was
advancedStuck(cur, ln) == cur

\* currentOffset += line.length
advanced(cur, ln) == cur + Len(ln)

\* body of the while loop for one match
matchBody(processedLine, m, processedLineOffset, st, off, b) ==
    LET matched == Sub(processedLine, m.index, m.end)
        trimmedSentence == trim(matched)
        words == countWords(trimmedSentence)
        class == getClassForSentence(words, st)
        sentenceStart == sentenceStartOf(processedLineOffset, m.index, off)
        leadingWhitespace == Len(matched) - Len(trimStart(matched))
        contentStart == sentenceStart + leadingWhitespace
        contentEnd == contentStart + Len(trimmedSentence)
    IN  IF Len(trimmedSentence) = 0 THEN b
        ELSE IF words = 0 THEN b
        ELSE IF contentStart < contentEnd
             THEN Append(b, Range(contentStart, contentEnd, class, trimmedSentence))
             ELSE b

\* the while loop over the matches of sentenceRegex in processedLine
RECURSIVE matchLoop(_, _, _, _, _, _)
matchLoop(processedLine, from, processedLineOffset, st, off, b) ==
    LET m == exec(processedLine, from)
    IN  IF ~m.found THEN b
        ELSE matchLoop(processedLine, m.end, processedLineOffset, st, off,
                       matchBody(processedLine, m, processedLineOffset, st, off, b))

\* faulty variant of lineBody: the content of a list line is one span, counted
\* and classified as a whole (the earlier sentence-detection.ts)
lineBodyWholeItem(ln, cur, st, off, b) ==
    IF Len(trim(ln)) = 0
    THEN [currentOffset |-> advanced(cur, ln), builder |-> b]
    ELSE LET m == detectMarkdownListMarker(trim(ln))
         IN  IF m.matched
             THEN [currentOffset |-> advanced(cur, ln),
                   builder |->
                       IF countWords(m.content) > 0
                       THEN Append(b, Range(cur + off + m.markerLength,
                                            cur + off + m.markerLength + Len(m.content),
                                            getClassForSentence(countWords(m.content), st),
                                            m.content))
                       ELSE b]
             ELSE [currentOffset |-> advanced(cur, ln),
                   builder |-> matchLoop(ln, 0, cur, st, off, b)]

\* body of the for-of loop for one element of lines
lineBody(ln, cur, st, off, b) ==
    IF Len(trim(ln)) = 0
    THEN [currentOffset |-> advanced(cur, ln), builder |-> b]
    ELSE LET m == detectMarkdownListMarker(trim(ln))
             processedLine == IF m.matched THEN m.content ELSE ln
             processedLineOffset == processedLineOffsetOf(cur, m)
         IN  IF Len(processedLine) = 0
             THEN [currentOffset |-> cur, builder |-> b]
             ELSE [currentOffset |-> advanced(cur, ln),
                   builder |-> matchLoop(processedLine, 0, processedLineOffset, st, off, b)]

RECURSIVE forLoop(_, _, _, _, _, _)
forLoop(ls, i, cur, st, off, b) ==
    IF i > Len(ls) THEN b
    ELSE LET after == lineBody(ls[i], cur, st, off, b)
         IN  forLoop(ls, i + 1, after.currentOffset, st, off, after.builder)

\* the whole call, as a function of its arguments
computeDecorations(t, st, off) == forLoop(split(t), 1, 0, st, off, <<>>)

---------------------------------------------------------------------------
(* Inputs.                                                                 *)

MaxTokens == 4

MaxOffset == 2

\* the pieces f[1], ..., f[k] put together
RECURSIVE Concat(_, _)
Concat(f, k) == IF k = 0 THEN <<>> ELSE Concat(f, k - 1) \o f[k]

\* pieces a text is put together from
Tokens ==
    {<<"x">>, <<" ">>, <<".">>, <<"\n">>, <<"-">>, <<"1">>,
     <<"[", " ", "]">>, <<"[", "x", "]">>}

Thresholds(s, m, l) == [shortThreshold |-> s, mediumThreshold |-> m, longThreshold |-> l]

ScenarioText ==
    << "H", "i", " ", "t", "h", "e", "r", "e", ".", " ", "T", "h",
       "i", "s", " ", "s", "e", "n", "t", "e", "n", "c", "e", " ",
       "h", "a", "s", " ", "e", "i", "g", "h", "t", " ", "w", "o",
       "r", "d", "s", " ", "i", "n", "s", "i", "d", "e", " ", "i",
       "t", ".", "\n", "-", " ", "A", " ", "s", "h", "o", "r", "t",
       " ", "l", "i", "s", "t", " ", "i", "t", "e", "m", " ", "h",
       "e", "r", "e", "." >>

ScenarioSettings == Thresholds(3, 6, 9)

\* a list item of two sentences, of two and of five words
ListScenarioText ==
    << "-", " ", "G", "o", " ", "o", "n", ".", " ", "I", "t", " ", "i", "s",
       " ", "n", "o", "t", " ", "f", "a", "r", " ", "n", "o", "w", "." >>

\* each text is tried with baseOffset 0 and with a positive baseOffset
DecorSettings == {<<Thresholds(1, 2, 3), 0>>, <<Thresholds(2, 3, 4), MaxOffset>>}

MaxCount == 10

MaxThreshold == 9

\* the threshold triples with short < medium < long
OrderedThresholds ==
    {st \in [shortThreshold : 1..MaxThreshold, mediumThreshold : 1..MaxThreshold,
             longThreshold : 1..MaxThreshold] :
        st.shortThreshold < st.mediumThreshold /\ st.mediumThreshold < st.longThreshold}

MaxWordLen == 5

WordTokens == {<<"a">>, <<"'">>, <<"U+2019">>, <<" ">>, <<"1">>, <<"-">>}

HelloWorld == <<"H", "e", "l", "l", "o", ",", " ", "w", "o", "r", "l", "d", "!">>

DontStop == <<"d", "o", "n", "'", "t", " ", "s", "t", "o", "p">>

MaxLineTokens == 4

LineTokens ==
    {<<"x">>, <<" ">>, <<".">>, <<"\n">>, <<"-">>, <<"1">>,
     <<"[", " ", "]">>, <<"[", "x", "]">>, <<"[", "X", "]">>, <<">">>}

TwoShortOne == <<"2", ".", " ", "S", "h", "o", "r", "t", " ", "o", "n", "e", ".">>

ShortOne == <<"S", "h", "o", "r", "t", " ", "o", "n", "e", ".">>

---------------------------------------------------------------------------
(* computeDecorations as a walk over the lines.                            *)

IdleClass == wordCount = 0 /\ className = ""

IdleWords == sentence = <<>> /\ count = 0

IdleMarker == line = <<>> /\ listMarkerMatch = null

IdleScan == scanLine = <<>> /\ lastIndex = 0 /\ matches = <<>>

MaxViews == 2

Views == 1..MaxViews

\* no editor is open and the settings tab is not shown
IdlePlugin ==
    /\ leaves = {}
    /\ active = 0
    /\ editorHighlightingMap = [v \in Views |-> "unset"]
    /\ sentenceHighlighterField = [v \in Views |-> <<>>]
    /\ doc = [v \in Views |-> <<>>]
    /\ visibleRanges = [v \in Views |-> <<0, 0>>]
    /\ toggled = {}
    /\ defaultHighlightingEnabled = FALSE
    /\ data = ScenarioSettings
    /\ passed = <<>>
    /\ limits = <<>>

IdleColor == backgroundColor = <<0, 0, 0>> /\ newLightness = 0

\* no update listener has anything to do
IdleListener ==
    /\ updates = [v \in Views |-> <<>>]
    /\ transactions = [v \in Views |-> 0]
    /\ dispatches = [v \in Views |-> 0]

IdleLate == IdleColor /\ IdleListener

IdleRest == IdleScan /\ earlier = <<>> /\ given = <<>> /\ IdlePlugin /\ IdleLate

\* the state on entry to the for-of loop
InitDecor ==
    /\ \/ \E n \in 0..MaxTokens : \E f \in [1..n -> Tokens] : \E in \in DecorSettings :
              /\ text = Concat(f, n)
              /\ settings = in[1]
              /\ offset = in[2]
       \/ /\ text \in {ScenarioText, ListScenarioText}
          /\ settings = ScenarioSettings
          /\ offset = 0
    /\ lines = split(text)
    /\ idx = 1
    /\ currentOffset = 0
    /\ builder = <<>>
    /\ result = <<>>
    /\ pc = "loop"
    /\ IdleClass /\ IdleWords /\ IdleMarker /\ IdleRest

\* one iteration of the for-of loop
LineStep ==
    /\ pc = "loop"
    /\ idx <= Len(lines)
    /\ LET after == lineBody(lines[idx], currentOffset, settings, offset, builder)
       IN  /\ currentOffset' = after.currentOffset
           /\ builder' = after.builder
    /\ idx' = idx + 1
    /\ UNCHANGED <<text, settings, offset, lines, result, pc>>
    /\ UNCHANGED <<classVars, wordVars, markerVars, restVars>>

\* return builder.finish()
Finish ==
    /\ pc = "loop"
    /\ idx > Len(lines)
    /\ result' = builder
    /\ pc' = "done"
    /\ UNCHANGED <<text, settings, offset, lines, idx, currentOffset, builder>>
    /\ UNCHANGED <<classVars, wordVars, markerVars, restVars>>

NextDecor == LineStep \/ Finish

SpecDecor == InitDecor /\ [][NextDecor]_vars

---------------------------------------------------------------------------
(* computeDecorations called again and again.                              *)

MaxCallTokens == 2

CallTokens == {<<"x", ".">>, <<"\n">>, <<"-", " ">>}

\* faulty variant of newRangeSetBuilder: one builder is kept for all calls
reusedBuilder(b) == b

\* const builder = new RangeSetBuilder<Decoration>()
newRangeSetBuilder(b) == <<>>

\* a finished call: its arguments and the value it returned; others tells that
\* a call with other arguments has been made since
CallRecord(t, st, off, r) ==
    [text |-> t, settings |-> st, offset |-> off, result |-> r, others |-> FALSE]

SameArguments(c, t, st, off) == c.text = t /\ c.settings = st /\ c.offset = off

InitCalls ==
    /\ \E n \in 0..MaxCallTokens : \E f \in [1..n -> CallTokens] : \E in \in DecorSettings :
           /\ text = Concat(f, n)
           /\ settings = in[1]
           /\ offset = in[2]
    /\ lines = split(text)
    /\ idx = 1
    /\ currentOffset = 0
    /\ builder = <<>>
    /\ result = <<>>
    /\ pc = "loop"
    /\ IdleClass /\ IdleWords /\ IdleMarker /\ IdleRest

\* the next call, entered after the one before it has returned
Call ==
    /\ pc = "done"
    /\ \E n \in 0..MaxCallTokens : \E f \in [1..n -> CallTokens] : \E in \in DecorSettings :
           /\ text' = Concat(f, n)
           /\ settings' = in[1]
           /\ offset' = in[2]
    /\ \/ earlier' = <<CallRecord(text, settings, offset, result)>>
       \/ /\ earlier # <<>>
          /\ earlier' = <<[earlier[1] EXCEPT !.others =
                 @ \/ ~SameArguments(earlier[1], text, settings, offset)]>>
    /\ lines' = split(text')
    /\ idx' = 1
    /\ currentOffset' = 0
    /\ builder' = newRangeSetBuilder(builder)
    /\ result' = <<>>
    /\ pc' = "loop"
    /\ UNCHANGED <<classVars, wordVars, markerVars, scanVars, given, editorVars, tabVars>>
    /\ UNCHANGED lateVars

NextCalls == Call \/ LineStep \/ Finish

SpecCalls == InitCalls /\ [][NextCalls]_vars

---------------------------------------------------------------------------
(* The other functions, each called once on an argument.                   *)

IdleDecor ==
    /\ text = <<>> /\ offset = 0
    /\ lines = <<>> /\ idx = 1 /\ currentOffset = 0
    /\ builder = <<>> /\ result = <<>>

InitClass ==
    /\ wordCount \in 0..MaxCount
    /\ settings \in OrderedThresholds
    /\ className = ""
    /\ pc = "call"
    /\ IdleDecor /\ IdleWords /\ IdleMarker /\ IdleRest

Classify ==
    /\ pc = "call"
    /\ className' = getClassForSentence(wordCount, settings)
    /\ pc' = "done"
    /\ UNCHANGED <<decorVars, wordCount, wordVars, markerVars, restVars>>

SpecClass == InitClass /\ [][Classify]_vars

InitWords ==
    /\ \/ \E n \in 0..MaxWordLen : \E f \in [1..n -> WordTokens] : sentence = Concat(f, n)
       \/ sentence \in {HelloWorld, DontStop}
    /\ count = 0
    /\ pc = "call"
    /\ settings = ScenarioSettings
    /\ IdleDecor /\ IdleClass /\ IdleMarker /\ IdleRest

CountWords ==
    /\ pc = "call"
    /\ count' = countWords(sentence)
    /\ pc' = "done"
    /\ UNCHANGED <<decorVars, classVars, sentence, markerVars, restVars>>

SpecWords == InitWords /\ [][CountWords]_vars

InitMarker ==
    /\ \/ \E n \in 0..MaxLineTokens : \E f \in [1..n -> LineTokens] : line = Concat(f, n)
       \/ line = TwoShortOne
    /\ listMarkerMatch = null
    /\ pc = "call"
    /\ settings = ScenarioSettings
    /\ IdleDecor /\ IdleClass /\ IdleWords /\ IdleRest

Detect ==
    /\ pc = "call"
    /\ listMarkerMatch' = detectMarkdownListMarker(line)
    /\ pc' = "done"
    /\ UNCHANGED <<decorVars, classVars, wordVars, line, restVars>>

SpecMarker == InitMarker /\ [][Detect]_vars

---------------------------------------------------------------------------
(* The while loop of computeDecorations over one processed line.           *)

MaxScanTokens == 5

ScanTokens == {<<"x">>, <<" ">>, <<".">>, <<"!">>, <<"?">>}

\* const sentenceRegex = /.../g: a new object, lastIndex 0
InitScan ==
    /\ \E n \in 0..MaxScanTokens : \E f \in [1..n -> ScanTokens] : scanLine = Concat(f, n)
    /\ lastIndex = 0
    /\ matches = <<>>
    /\ pc = "scan"
    /\ settings = ScenarioSettings
    /\ IdleDecor /\ IdleClass /\ IdleWords /\ IdleMarker
    /\ earlier = <<>>
    /\ given = <<>>
    /\ IdlePlugin
    /\ IdleLate

\* exec returns a match and moves lastIndex to its end
ExecMatch ==
    /\ pc = "scan"
    /\ LET m == exec(scanLine, lastIndex)
       IN  /\ m.found
           /\ matches' = Append(matches, <<m.index, m.end>>)
           /\ lastIndex' = m.end
    /\ UNCHANGED <<decorVars, classVars, wordVars, markerVars, scanLine, pc, earlier, given,
                   editorVars, tabVars, lateVars>>

\* exec returns null, sets lastIndex to 0, and the loop ends
ExecNull ==
    /\ pc = "scan"
    /\ ~exec(scanLine, lastIndex).found
    /\ lastIndex' = 0
    /\ pc' = "done"
    /\ UNCHANGED <<decorVars, classVars, wordVars, markerVars, scanLine, matches, earlier,
                   given, editorVars, tabVars, lateVars>>

NextScan == ExecMatch \/ ExecNull

SpecScan == InitScan /\ [][NextScan]_vars

---------------------------------------------------------------------------
(* validateThresholds (settings tab)                                       *)

Max(a, b) == IF a >= b THEN a ELSE b

\* faulty variant of validateThresholds: the short threshold is repaired first
validateShortFirst(st) ==
    LET s == IF st.shortThreshold >= st.mediumThreshold
             THEN Max(1, st.mediumThreshold - 1) ELSE st.shortThreshold
        m == IF st.mediumThreshold <= s THEN Max(2, s + 1) ELSE st.mediumThreshold
        l == IF st.longThreshold <= m THEN Max(3, m + 1) ELSE st.longThreshold
    IN  Thresholds(s, m, l)

\* faulty variant of validateThresholds: the long threshold is repaired before
\* the medium threshold
validateLongFirst(st) ==
    LET l == IF st.longThreshold <= st.mediumThreshold
             THEN Max(3, st.mediumThreshold + 1) ELSE st.longThreshold
        m == IF st.mediumThreshold <= st.shortThreshold
             THEN Max(2, st.shortThreshold + 1) ELSE st.mediumThreshold
        s == IF st.shortThreshold >= m THEN Max(1, m - 1) ELSE st.shortThreshold
    IN  Thresholds(s, m, l)

validateThresholds(st) ==
    LET m == IF st.mediumThreshold <= st.shortThreshold
             THEN Max(2, st.shortThreshold + 1) ELSE st.mediumThreshold
        l == IF st.longThreshold <= m THEN Max(3, m + 1) ELSE st.longThreshold
        s == IF st.shortThreshold >= m THEN Max(1, m - 1) ELSE st.shortThreshold
    IN  Thresholds(s, m, l)

\* the thresholds tried are the integers from -MaxMagnitude to MaxMagnitude
MaxMagnitude == 4

InitValidate ==
    /\ \E s \in -MaxMagnitude..MaxMagnitude, m \in -MaxMagnitude..MaxMagnitude,
          l \in -MaxMagnitude..MaxMagnitude : settings = Thresholds(s, m, l)
    /\ given = <<settings>>
    /\ pc = "call"
    /\ IdleDecor /\ IdleClass /\ IdleWords /\ IdleMarker /\ IdleScan
    /\ earlier = <<>>
    /\ IdlePlugin
    /\ IdleLate

Validate ==
    /\ pc = "call"
    /\ settings' = validateThresholds(settings)
    /\ pc' = "done"
    /\ UNCHANGED <<text, offset, lines, idx, currentOffset, builder, result>>
    /\ UNCHANGED <<classVars, wordVars, markerVars, scanVars, earlier, given>>
    /\ UNCHANGED <<editorVars, tabVars, lateVars>>

SpecValidate == InitValidate /\ [][Validate]_vars

---------------------------------------------------------------------------
(* The plugin: editor views and their highlighting state (main.ts).        *)

\* the documents an editor shows
Docs ==
    {<<"x", ".", " ", "x", " ", "x", ".">>,
     <<"-", " ", "x", ".", "\n", "x">>}

\* a viewport starts at the top of the document or MaxScroll characters below
MaxScroll == 2

DefaultShort == 4

DefaultMedium == 7

DefaultLong == 12

DEFAULT_SETTINGS == Thresholds(DefaultShort, DefaultMedium, DefaultLong)

\* the thresholds saveSettings is called with when the settings tab is left out
PluginThresholds == {Thresholds(1, 2, 3), Thresholds(2, 3, 4)}

\* the variables of the functions of sentence-detection.ts, and what else the
\* plugin's handlers leave alone
coreVars ==
    <<text, offset, lines, idx, currentOffset, builder, result, pc,
      classVars, wordVars, markerVars, scanVars, earlier, given, lateVars>>

\* computeDecorations of the visible text from offset from to the end of d,
\* for the documents of Docs and the thresholds of PluginThresholds
DecorationTable ==
    [d \in Docs |-> [from \in 0..MaxScroll |-> [st \in PluginThresholds |->
        computeDecorations(Sub(d, from, Len(d)), st, from)]]]

\* the decorations of the visible range (one range per view); the value is
\* taken from DecorationTable where it is there
visibleDecorations(d, range, st) ==
    IF /\ d \in Docs
       /\ st \in PluginThresholds
       /\ range[1] \in 0..MaxScroll
       /\ range[2] = Len(d)
    THEN DecorationTable[d][range[1]][st]
    ELSE computeDecorations(Sub(d, range[1], range[2]), st, range[1])

\* faulty variant of updateHighlightingState: one state for all editors
updateEveryState(m, v, newState) == [w \in Views |-> IF newState THEN "true" ELSE "false"]

updateHighlightingState(m, v, newState) ==
    [m EXCEPT ![v] = IF newState THEN "true" ELSE "false"]

\* faulty variant of applyHighlightingToEditor: nothing is dispatched when the
\* state is false, the decorations stay
applyKeepsDecorations(old, d, range, st, state) ==
    IF state THEN visibleDecorations(d, range, st) ELSE old

\* the decorations of the view after applyHighlightingToEditor
applyHighlightingToEditor(old, d, range, st, state) ==
    IF state THEN visibleDecorations(d, range, st) ELSE <<>>

\* the field after the active-leaf-change handler, a the active view
activeLeafChange(f, m, a, d, vr, st) ==
    IF a = 0 THEN f
    ELSE [f EXCEPT ![a] =
             IF m[a] = "true" THEN visibleDecorations(d[a], vr[a], st) ELSE <<>>]

\* the field after the update listener has seen a document or viewport change
\* of view v
liveHighlightExtension(f, m, v, d, range, st) ==
    IF m[v] = "true" THEN [f EXCEPT ![v] = visibleDecorations(d, range, st)] ELSE f

\* the field after refreshAllActiveHighlighting
refreshAllActiveHighlighting(f, m, ls, d, vr, st) ==
    [v \in Views |->
        IF v \in ls /\ m[v] = "true" THEN visibleDecorations(d[v], vr[v], st) ELSE f[v]]

\* the state onload leaves, settings being what loadSettings returned
Loaded ==
    /\ leaves \in SUBSET Views
    /\ active \in leaves \cup {0}
    /\ \E d \in [Views -> Docs] : doc = [v \in Views |-> IF v \in leaves THEN d[v] ELSE <<>>]
    /\ visibleRanges = [v \in Views |-> <<0, Len(doc[v])>>]
    /\ defaultHighlightingEnabled \in BOOLEAN
    /\ editorHighlightingMap =
           [v \in Views |-> IF v # active THEN "unset"
                            ELSE IF defaultHighlightingEnabled THEN "true" ELSE "false"]
    /\ sentenceHighlighterField =
           [v \in Views |-> IF v = active /\ defaultHighlightingEnabled
                            THEN visibleDecorations(doc[v], visibleRanges[v], settings)
                            ELSE <<>>]
    /\ toggled = {}
    /\ data = settings
    /\ passed = IF active # 0 /\ defaultHighlightingEnabled THEN <<settings>> ELSE <<>>
    /\ limits = <<>>
    /\ pc = "run"
    /\ IdleDecor /\ IdleClass /\ IdleWords /\ IdleMarker /\ IdleScan
    /\ earlier = <<>>
    /\ given = <<>>
    /\ IdleLate

InitPlugin == settings \in PluginThresholds /\ Loaded

\* a note is opened in a new leaf, which becomes the active one
OpenEditor ==
    \E v \in Views \ leaves : \E d \in Docs :
        /\ leaves' = leaves \cup {v}
        /\ doc' = [doc EXCEPT ![v] = d]
        /\ visibleRanges' = [visibleRanges EXCEPT ![v] = <<0, Len(d)>>]
        /\ active' = v
        /\ sentenceHighlighterField' =
               activeLeafChange(sentenceHighlighterField, editorHighlightingMap, v,
                                doc', visibleRanges', settings)
        /\ passed' = IF editorHighlightingMap[v] = "true" THEN <<settings>> ELSE <<>>
        /\ UNCHANGED <<editorHighlightingMap, toggled, settings, coreVars>>
        /\ UNCHANGED <<defaultHighlightingEnabled, data, limits>>

\* a leaf is closed: its view and the entry of the WeakMap go
CloseEditor ==
    \E v \in leaves :
        /\ leaves' = leaves \ {v}
        /\ active' = IF active = v THEN 0 ELSE active
        /\ doc' = [doc EXCEPT ![v] = <<>>]
        /\ visibleRanges' = [visibleRanges EXCEPT ![v] = <<0, 0>>]
        /\ editorHighlightingMap' = [editorHighlightingMap EXCEPT ![v] = "unset"]
        /\ sentenceHighlighterField' = [sentenceHighlighterField EXCEPT ![v] = <<>>]
        /\ toggled' = toggled \ {v}
        /\ passed' = <<>>
        /\ UNCHANGED <<settings, defaultHighlightingEnabled, data, limits, coreVars>>

\* another leaf, or a leaf that is no markdown view, becomes the active one
ActiveLeafChange ==
    \E a \in (leaves \cup {0}) \ {active} :
        /\ active' = a
        /\ sentenceHighlighterField' =
               activeLeafChange(sentenceHighlighterField, editorHighlightingMap, a,
                                doc, visibleRanges, settings)
        /\ passed' = IF a # 0 /\ editorHighlightingMap[a] = "true"
                     THEN <<settings>> ELSE <<>>
        /\ UNCHANGED <<leaves, doc, visibleRanges, editorHighlightingMap, toggled>>
        /\ UNCHANGED <<settings, defaultHighlightingEnabled, data, limits, coreVars>>

toggleHighlighting ==
    \/ /\ active = 0
       /\ UNCHANGED vars
    \/ /\ active # 0
       /\ LET newState == editorHighlightingMap[active] # "true"
          IN  /\ editorHighlightingMap' =
                     updateHighlightingState(editorHighlightingMap, active, newState)
              /\ sentenceHighlighterField' =
                     [sentenceHighlighterField EXCEPT ![active] =
                         applyHighlightingToEditor(@, doc[active], visibleRanges[active],
                                                   settings, newState)]
              /\ passed' = IF newState THEN <<settings>> ELSE <<>>
       /\ toggled' = toggled \cup {active}
       /\ UNCHANGED <<leaves, active, doc, visibleRanges>>
       /\ UNCHANGED <<settings, defaultHighlightingEnabled, data, limits, coreVars>>

\* the document of a view changes and its update listener runs
DocChange ==
    \E v \in leaves : \E d \in Docs \ {doc[v]} :
        LET range == <<Min({visibleRanges[v][1], Len(d)}), Len(d)>>
        IN  /\ doc' = [doc EXCEPT ![v] = d]
            /\ visibleRanges' = [visibleRanges EXCEPT ![v] = range]
            /\ sentenceHighlighterField' =
                   liveHighlightExtension(sentenceHighlighterField, editorHighlightingMap,
                                          v, d, range, settings)
            /\ passed' = IF editorHighlightingMap[v] = "true" THEN <<settings>> ELSE <<>>
            /\ UNCHANGED <<leaves, active, editorHighlightingMap, toggled>>
            /\ UNCHANGED <<settings, defaultHighlightingEnabled, data, limits, coreVars>>

\* a view is scrolled and its update listener runs
ViewportChange ==
    \E v \in leaves :
        \E from \in {0, Min({MaxScroll, Len(doc[v])})} \ {visibleRanges[v][1]} :
            LET range == <<from, Len(doc[v])>>
            IN  /\ visibleRanges' = [visibleRanges EXCEPT ![v] = range]
                /\ sentenceHighlighterField' =
                       liveHighlightExtension(sentenceHighlighterField,
                                              editorHighlightingMap, v, doc[v], range,
                                              settings)
                /\ passed' = IF editorHighlightingMap[v] = "true"
                             THEN <<settings>> ELSE <<>>
                /\ UNCHANGED <<leaves, active, doc, editorHighlightingMap, toggled>>
                /\ UNCHANGED <<settings, defaultHighlightingEnabled, data, limits, coreVars>>

\* saveSettings with the thresholds st in memory: saveData, then
\* refreshAllActiveHighlighting
Saves(st) ==
    /\ data' = st
    /\ sentenceHighlighterField' =
           refreshAllActiveHighlighting(sentenceHighlighterField, editorHighlightingMap,
                                        leaves, doc, visibleRanges, st)
    /\ passed' = IF \E v \in leaves : editorHighlightingMap[v] = "true"
                 THEN <<st>> ELSE <<>>

\* the thresholds are changed and saved
saveSettings ==
    \E st \in PluginThresholds \ {settings} :
        /\ settings' = st
        /\ Saves(st)
        /\ UNCHANGED <<leaves, active, doc, visibleRanges, editorHighlightingMap, toggled>>
        /\ UNCHANGED <<defaultHighlightingEnabled, limits, coreVars>>

NextPlugin ==
    \/ OpenEditor
    \/ CloseEditor
    \/ ActiveLeafChange
    \/ toggleHighlighting
    \/ DocChange
    \/ ViewportChange
    \/ saveSettings

SpecPlugin == InitPlugin /\ [][NextPlugin]_vars

---------------------------------------------------------------------------
(* The settings tab: the threshold controls (settings.ts).                 *)

\* thresholds above MaxLong are not tried
MaxLong == 13

\* setLimits of the short and of the medium slider
sliderLimits(st) ==
    [shortMin |-> 1,
     shortMax |-> Max(1, st.mediumThreshold - 1),
     mediumMin |-> Max(2, st.shortThreshold + 1),
     mediumMax |-> Max(st.shortThreshold + 2, st.longThreshold - 1)]

\* what is typed into the long threshold field: nothing, something parseInt
\* makes no number of, or a number
LongTexts ==
    {[kind |-> "empty", num |-> 0], [kind |-> "NaN", num |-> 0]}
        \cup {[kind |-> "number", num |-> n] : n \in -1..MaxLong}

\* the plugin is loaded with the default thresholds and the first document
\* in an editor
InitSettings ==
    /\ settings = DEFAULT_SETTINGS
    /\ Loaded
    /\ leaves = {1}
    /\ doc[1] = <<"x", ".", " ", "x", " ", "x", ".">>

\* display() with the thresholds st in memory: validateThresholds, then the
\* controls are built
Displays(st) ==
    /\ validateThresholds(st).longThreshold <= MaxLong
    /\ settings' = validateThresholds(st)
    /\ limits' = <<sliderLimits(validateThresholds(st))>>

\* what the handlers of the settings tab leave alone
TabFrame ==
    /\ UNCHANGED <<leaves, active, doc, visibleRanges, editorHighlightingMap, toggled>>
    /\ UNCHANGED <<defaultHighlightingEnabled, coreVars>>

\* the settings tab is opened
display ==
    /\ Displays(settings)
    /\ passed' = <<>>
    /\ UNCHANGED <<data, sentenceHighlighterField>>
    /\ TabFrame

\* onChange of the short threshold slider
shortSlider ==
    /\ limits # <<>>
    /\ \E value \in (limits[1].shortMin)..(limits[1].shortMax) :
           /\ value # settings.shortThreshold
           /\ LET st == validateThresholds([settings EXCEPT !.shortThreshold = value])
              IN  Saves(st) /\ Displays(st)
    /\ TabFrame

\* onChange of the medium threshold slider
mediumSlider ==
    /\ limits # <<>>
    /\ \E value \in (limits[1].mediumMin)..(limits[1].mediumMax) :
           /\ value # settings.mediumThreshold
           /\ LET st == validateThresholds([settings EXCEPT !.mediumThreshold = value])
              IN  Saves(st) /\ Displays(st)
    /\ TabFrame

\* the reset button of the short threshold
resetShort ==
    /\ limits # <<>>
    /\ LET st == [settings EXCEPT !.shortThreshold = DefaultShort]
       IN  Saves(st) /\ Displays(st)
    /\ TabFrame

\* the reset button of the medium threshold
resetMedium ==
    /\ limits # <<>>
    /\ LET st == [settings EXCEPT !.mediumThreshold = DefaultMedium]
       IN  Saves(st) /\ Displays(st)
    /\ TabFrame

\* the reset button of the long threshold
resetLong ==
    /\ limits # <<>>
    /\ LET st == [settings EXCEPT !.longThreshold = DefaultLong]
       IN  Saves(st) /\ Displays(st)
    /\ TabFrame

\* faulty variant of commitLong: a value that is too small is raised to the
\* least one allowed and saved
commitLongClamped(value) ==
    IF value.kind = "empty"
    THEN LET st == [settings EXCEPT !.longThreshold = DefaultLong]
         IN  Saves(st) /\ Displays(st)
    ELSE IF value.kind = "NaN"
    THEN /\ Displays(settings)
         /\ passed' = <<>>
         /\ UNCHANGED <<data, sentenceHighlighterField>>
    ELSE LET st == [settings EXCEPT
                       !.longThreshold = Max(value.num, settings.mediumThreshold + 1)]
         IN  Saves(st) /\ Displays(st)

\* validateAndSave with value in the text field
commitLong(value) ==
    IF value.kind = "empty"
    THEN LET st == [settings EXCEPT !.longThreshold = DefaultLong]
         IN  Saves(st) /\ Displays(st)
    ELSE IF value.kind = "NaN" \/ value.num <= settings.mediumThreshold
    THEN /\ Displays(settings)
         /\ passed' = <<>>
         /\ UNCHANGED <<data, sentenceHighlighterField>>
    ELSE LET st == [settings EXCEPT !.longThreshold = value.num]
         IN  Saves(st) /\ Displays(st)

\* blur or Enter in the long threshold field
validateAndSave ==
    /\ limits # <<>>
    /\ \E value \in LongTexts : commitLong(value)
    /\ TabFrame

\* the plugin is unloaded and loaded again: loadSettings, a new WeakMap, new
\* fields, the default for the active editor
onload ==
    /\ settings' = data
    /\ limits' = <<>>
    /\ editorHighlightingMap' =
           [v \in Views |-> IF v # active THEN "unset"
                            ELSE IF defaultHighlightingEnabled THEN "true" ELSE "false"]
    /\ sentenceHighlighterField' =
           [v \in Views |-> IF v = active /\ defaultHighlightingEnabled
                            THEN visibleDecorations(doc[v], visibleRanges[v], data)
                            ELSE <<>>]
    /\ toggled' = {}
    /\ passed' = IF active # 0 /\ defaultHighlightingEnabled THEN <<data>> ELSE <<>>
    /\ UNCHANGED <<leaves, active, doc, visibleRanges, defaultHighlightingEnabled, data>>
    /\ UNCHANGED coreVars

NextSettings ==
    \/ display
    \/ shortSlider
    \/ mediumSlider
    \/ resetShort
    \/ resetMedium
    \/ resetLong
    \/ validateAndSave
    \/ onload

SpecSettings == InitSettings /\ [][NextSettings]_vars

---------------------------------------------------------------------------
(* The contrasting text colour (color-utils.ts).  A colour is its three    *)
(* channels <<r, g, b>>, each 0..MaxChannel.  A lightness is kept in units *)
(* of 1/51 percent, in which hexToHsl's l = (max + min) / 2 / 255 * 100 is *)
(* the integer 10 * (max + min).                                           *)

\* parseInt(.., 16) of two hex digits is at most 0xff
MaxChannel == 255

\* p percent as a lightness
Percent(p) == 51 * p

Least(a, b) == IF a <= b THEN a ELSE b

\* hexToHsl(hex).l
hexToHslLightness(c) ==
    LET max == Max(c[1], Max(c[2], c[3]))
        min == Least(c[1], Least(c[2], c[3]))
    IN  10 * (max + min)

\* let newLightness of getContrastingTextColor
contrastingLightness(l) ==
    IF l > Percent(50)
    THEN Max(Percent(15), l - Percent(60))
    ELSE Least(Percent(85), l + Percent(60))

\* the colours tried: every red and green, blue none or full
InitColor ==
    /\ \E r \in 0..MaxChannel, g \in 0..MaxChannel, b \in {0, MaxChannel} :
           backgroundColor = <<r, g, b>>
    /\ newLightness = 0
    /\ pc = "call"
    /\ settings = ScenarioSettings
    /\ IdleDecor /\ IdleClass /\ IdleWords /\ IdleMarker /\ IdleScan
    /\ earlier = <<>>
    /\ given = <<>>
    /\ IdlePlugin
    /\ IdleListener

getContrastingTextColor ==
    /\ pc = "call"
    /\ newLightness' = contrastingLightness(hexToHslLightness(backgroundColor))
    /\ pc' = "done"
    /\ UNCHANGED <<decorVars, classVars, wordVars, markerVars, scanVars, earlier, given>>
    /\ UNCHANGED <<editorVars, tabVars, backgroundColor, listenerVars>>

SpecColor == InitColor /\ [][getContrastingTextColor]_vars

---------------------------------------------------------------------------
(* The update listener of one editor view, step by step (main.ts): a       *)
(* transaction of the view makes an update, the listener sees the update   *)
(* and may dispatch the effect, which is a transaction of its own.         *)

\* a fold hides one character after the first MaxFold or fewer characters
MaxFold == 2

\* changes of the view followed in one behaviour
MaxTransactions == 2

\* the lists of visible ranges a view of document d can have
RangeLists(d) ==
    {<<<<from, Len(d)>>>> : from \in 0..MaxScroll}
        \cup {<< <<0, k>>, <<k + 1, Len(d)>> >> : k \in 1..MaxFold}

\* what a ViewUpdate tells the listener
ViewUpdate(docChanged, viewportChanged) ==
    [docChanged |-> docChanged, viewportChanged |-> viewportChanged]

\* faulty variant of effectTransaction: the dispatch counts as a document change
effectWithChanges == ViewUpdate(TRUE, FALSE)

\* the update made by view.dispatch({effects: ...}): no changes, no scrolling
effectTransaction == ViewUpdate(FALSE, FALSE)

\* faulty variant of listens: viewport changes are ignored (oa-main.ts)
listensDocOnly(u) == u.docChanged

\* the condition under which the listener recomputes
listens(u) == u.docChanged \/ u.viewportChanged

\* builder.finish() of the listener: the spans of every visible range in turn
RECURSIVE fullDecorations(_, _, _, _)
fullDecorations(d, ranges, st, k) ==
    IF k > Len(ranges) THEN <<>>
    ELSE computeDecorations(Sub(d, ranges[k][1], ranges[k][2]), st, ranges[k][1])
             \o fullDecorations(d, ranges, st, k + 1)

\* view 1 is open with a document; its highlighting is on, off or unset
InitListener ==
    /\ settings \in PluginThresholds
    /\ leaves = {1}
    /\ active = 1
    /\ \E d \in Docs : doc = [v \in Views |-> IF v = 1 THEN d ELSE <<>>]
    /\ \E r \in RangeLists(doc[1]) :
           visibleRanges = [v \in Views |-> IF v = 1 THEN r ELSE <<0, 0>>]
    /\ \E e \in {"true", "false", "unset"} :
           editorHighlightingMap = [v \in Views |-> IF v = 1 THEN e ELSE "unset"]
    /\ sentenceHighlighterField =
           [v \in Views |->
               IF editorHighlightingMap[v] = "true"
               THEN fullDecorations(doc[v], visibleRanges[v], settings, 1)
               ELSE <<>>]
    /\ toggled = {}
    /\ defaultHighlightingEnabled = FALSE
    /\ data = settings
    /\ passed = <<>>
    /\ limits = <<>>
    /\ pc = "run"
    /\ IdleDecor /\ IdleClass /\ IdleWords /\ IdleMarker /\ IdleScan
    /\ earlier = <<>>
    /\ given = <<>>
    /\ IdleColor
    /\ IdleListener

ListenerFrame ==
    /\ UNCHANGED <<leaves, active, editorHighlightingMap, toggled, settings, tabVars>>
    /\ UNCHANGED <<text, offset, lines, idx, currentOffset, builder, result, pc>>
    /\ UNCHANGED <<classVars, wordVars, markerVars, scanVars, earlier, given, colorVars>>

\* the user edits the document of a view whose listener has nothing left to do
DocTransaction ==
    \E v \in leaves : \E d \in Docs \ {doc[v]} : \E r \in RangeLists(d) :
        /\ updates[v] = <<>>
        /\ transactions[v] < MaxTransactions
        /\ doc' = [doc EXCEPT ![v] = d]
        /\ visibleRanges' = [visibleRanges EXCEPT ![v] = r]
        /\ updates' = [updates EXCEPT ![v] = <<ViewUpdate(TRUE, r # visibleRanges[v])>>]
        /\ transactions' = [transactions EXCEPT ![v] = @ + 1]
        /\ UNCHANGED <<sentenceHighlighterField, dispatches>>
        /\ ListenerFrame

\* the user scrolls or folds in a view whose listener has nothing left to do
ViewportTransaction ==
    \E v \in leaves : \E r \in RangeLists(doc[v]) \ {visibleRanges[v]} :
        /\ updates[v] = <<>>
        /\ transactions[v] < MaxTransactions
        /\ visibleRanges' = [visibleRanges EXCEPT ![v] = r]
        /\ updates' = [updates EXCEPT ![v] = <<ViewUpdate(FALSE, TRUE)>>]
        /\ transactions' = [transactions EXCEPT ![v] = @ + 1]
        /\ UNCHANGED <<doc, sentenceHighlighterField, dispatches>>
        /\ ListenerFrame

\* the update listener of view v is called with the oldest update
UpdateListener ==
    \E v \in leaves :
        /\ updates[v] # <<>>
        /\ dispatches[v] <= MaxTransactions
        /\ IF editorHighlightingMap[v] = "true" /\ listens(Head(updates[v]))
           THEN /\ sentenceHighlighterField' =
                       [sentenceHighlighterField EXCEPT
                           ![v] = fullDecorations(doc[v], visibleRanges[v], settings, 1)]
                /\ updates' = [updates EXCEPT ![v] = Append(Tail(@), effectTransaction)]
                /\ dispatches' = [dispatches EXCEPT ![v] = @ + 1]
           ELSE /\ updates' = [updates EXCEPT ![v] = Tail(@)]
                /\ UNCHANGED <<sentenceHighlighterField, dispatches>>
        /\ UNCHANGED <<doc, visibleRanges, transactions>>
        /\ ListenerFrame

NextListener == DocTransaction \/ ViewportTransaction \/ UpdateListener

SpecListener == InitListener /\ [][NextListener]_vars

---------------------------------------------------------------------------
(* Properties of the spans computeDecorations returns.                     *)

\* the slice of text a returned range covers
InText(r) == 0 <= r.from - offset /\ r.to - offset <= Len(text)

Slice(r) == Sub(text, r.from - offset, r.to - offset)

\* offset in text of the k-th element of lines
RECURSIVE StartOf(_, _)
StartOf(ls, k) == IF k <= 1 THEN 0 ELSE StartOf(ls, k - 1) + Len(ls[k - 1])

\* the k-th element of lines is a list line: a marker rule matches it
IsListLine(ln) == Len(trim(ln)) > 0 /\ detectMarkdownListMarker(trim(ln)).matched

\* number of characters of the indentation and the marker of a list line
MarkerEnd(ln) == RunEnd(ln, 0, Whitespace) + detectMarkdownListMarker(trim(ln)).markerLength

\* C1: the returned spans are in ascending order of start and do not overlap:
\* for each consecutive pair, spans[i].end <= spans[i+1].start
C1_SpansOrdered ==
    pc = "done" =>
        \A i \in 1..(Len(result) - 1) :
            /\ result[i].from <= result[i + 1].from
            /\ result[i].to <= result[i + 1].from

\* a text of several lines that yields spans on more than one of them
C1_Witness ==
    /\ pc = "done"
    /\ Len(lines) >= 3
    /\ Len(result) >= 2
    /\ \E i \in 1..(Len(result) - 1) : result[i].to < result[i + 1].from

\* C2: every returned span covers exactly the trimmed sentence that was
\* classified (no leading or trailing whitespace), and its category is the
\* classification of the word count of the text it covers
C2_PositionAccurate ==
    pc = "done" =>
        \A i \in 1..Len(result) :
            /\ InText(result[i])
            /\ Slice(result[i]) = result[i].sentence
            /\ trim(Slice(result[i])) = Slice(result[i])
            /\ result[i].class = getClassForSentence(countWords(Slice(result[i])), settings)

\* C3: on a list line, indented or not, no span covers a character of the
\* indentation or of the marker
C3_MarkerExcluded ==
    pc = "done" =>
        \A k \in 1..Len(lines) :
            IsListLine(lines[k]) =>
                \A i \in 1..Len(result) :
                    \/ result[i].to - offset <= StartOf(lines, k)
                    \/ result[i].from - offset >= StartOf(lines, k) + MarkerEnd(lines[k])

Shifted(spans, d) ==
    [i \in 1..Len(spans) |-> [spans[i] EXCEPT !.from = @ + d, !.to = @ + d]]

\* C4: the spans for baseOffset are the spans for baseOffset 0, each shifted by
\* baseOffset, with the same categories and in the same order
C4_OffsetShift ==
    pc = "done" => result = Shifted(computeDecorations(text, settings, 0), offset)

C4_Witness == pc = "done" /\ offset > 0 /\ Len(result) >= 2

Span(r) == <<r.from, r.to, r.class>>

\* C6: the two-line scenario text with thresholds 3/6/9 and baseOffset 0 yields
\* mini 0..9, medium 10..50 and, past the marker "- ", short 53..76
C6_Scenario ==
    (pc = "done" /\ text = ScenarioText /\ settings = ScenarioSettings /\ offset = 0) =>
        /\ Len(result) = 3
        /\ Span(result[1]) = <<0, 9, "sh-mini">>
        /\ Span(result[2]) = <<10, 50, "sh-medium">>
        /\ Span(result[3]) = <<53, 76, "sh-short">>

C6_Witness ==
    /\ pc = "done" /\ text = ScenarioText /\ settings = ScenarioSettings /\ offset = 0
    /\ Len(result) = 3

IsBlank(t) == \A k \in 1..Len(t) : t[k] \in Whitespace

\* markers with nothing after them
BareMarkers ==
    {<<"-">>, <<"1", ".">>,
     <<"-", "[", " ", "]">>, <<"-", " ", "[", " ", "]">>,
     <<"-", "[", "x", "]">>, <<"-", " ", "[", "x", "]">>}

\* one line that holds a list marker, possibly indented, and nothing else
IsBareListLine(t) ==
    /\ \A k \in 1..Len(t) : t[k] # "\n"
    /\ trim(t) \in BareMarkers

\* C7: the empty string, a text of whitespace and line breaks only, and a single
\* list line with nothing after its marker all yield no span
C7_DegenerateEmpty ==
    (pc = "done" /\ (IsBlank(text) \/ IsBareListLine(text))) => result = <<>>

\* a bare checkbox line, indented or followed by whitespace
C7_Witness ==
    /\ pc = "done"
    /\ IsBareListLine(text)
    /\ Len(trim(text)) >= 4
    /\ Len(text) > Len(trim(text))
    /\ result = <<>>

\* C8: every returned span has start < end and covers text whose word count
\* is at least 1
C8_SpansHaveWords ==
    pc = "done" =>
        \A i \in 1..Len(result) :
            /\ result[i].from < result[i].to
            /\ InText(result[i])
            /\ countWords(Slice(result[i])) >= 1

\* the part of C8 that is about the segment: a range is added only for a
\* trimmed sentence that holds a word
SegmentsHaveWords ==
    \A i \in 1..Len(builder) :
        /\ builder[i].from < builder[i].to
        /\ countWords(builder[i].sentence) >= 1

---------------------------------------------------------------------------
(* Properties of getClassForSentence, countWords, detectMarkdownListMarker *)

\* C5: for short < medium < long the class is mini exactly when count < short,
\* short when short <= count <= medium, medium when medium < count <= long,
\* long when count > long; with 5/7/9: 4 mini, 5 and 7 short, 8 and 9 medium,
\* 10 long
C5_ClassPartition ==
    pc = "done" =>
        /\ className \in {"sh-mini", "sh-short", "sh-medium", "sh-long"}
        /\ (className = "sh-mini") <=> (wordCount < settings.shortThreshold)
        /\ (className = "sh-short") <=>
               (settings.shortThreshold <= wordCount /\ wordCount <= settings.mediumThreshold)
        /\ (className = "sh-medium") <=>
               (settings.mediumThreshold < wordCount /\ wordCount <= settings.longThreshold)
        /\ (className = "sh-long") <=> (wordCount > settings.longThreshold)
        /\ settings = Thresholds(5, 7, 9) =>
               /\ wordCount = 4 => className = "sh-mini"
               /\ wordCount \in {5, 7} => className = "sh-short"
               /\ wordCount \in {8, 9} => className = "sh-medium"
               /\ wordCount = 10 => className = "sh-long"

C5_Witness ==
    /\ pc = "done"
    /\ settings = Thresholds(5, 7, 9)
    /\ wordCount = 5
    /\ className = "sh-short"

\* the letter runs of s, by the position of their first letter
RunStarts(s) == {k \in 1..Len(s) : s[k] \in Letters /\ (k = 1 \/ s[k - 1] \notin Letters)}

\* an apostrophe with a letter on both sides
IsLink(s, k) ==
    /\ 1 < k /\ k < Len(s)
    /\ s[k] \in Apostrophes
    /\ s[k - 1] \in Letters
    /\ s[k + 1] \in Letters

\* the links up to k in the chain of letters and links that k is part of
LinksUpTo(s, k) ==
    {j \in 1..k : IsLink(s, j) /\ \A i \in j..k : s[i] \in Letters \/ IsLink(s, i)}

\* a word takes one internal apostrophe: in a chain of runs the first, third,
\* ... link joins two runs into one word
Joins(s) == {k \in 1..Len(s) : IsLink(s, k) /\ Cardinality(LinksUpTo(s, k)) % 2 = 1}

\* C9: countWords is the number of maximal letter runs, a run with one internal
\* apostrophe and more letters counting once; digits, punctuation and markdown
\* characters count for nothing; "Hello, world!" is 2, "don't stop" is 2, a
\* text without letters is 0
C9_WordCount ==
    pc = "done" =>
        /\ count = Cardinality(RunStarts(sentence)) - Cardinality(Joins(sentence))
        /\ sentence = HelloWorld => count = 2
        /\ sentence = DontStop => count = 2
        /\ (\A k \in 1..Len(sentence) : sentence[k] \notin Letters) => count = 0

C9_Witness == pc = "done" /\ sentence = DontStop /\ count = 2

\* C10: whenever a marker is detected, markerLength + content.length is
\* line.length and content is the rest of the line from markerLength on
C10_MarkerPlusContent ==
    (pc = "done" /\ listMarkerMatch.matched) =>
        /\ listMarkerMatch.markerLength + Len(listMarkerMatch.content) = Len(line)
        /\ listMarkerMatch.content = Sub(line, listMarkerMatch.markerLength, Len(line))

\* a detected line with content and whitespace after it
C10_Witness ==
    /\ pc = "done"
    /\ listMarkerMatch.matched
    /\ Len(line) > 0
    /\ line[Len(line)] = " "
    /\ \E k \in 1..Len(listMarkerMatch.content) : listMarkerMatch.content[k] \in Letters

---------------------------------------------------------------------------
(* The rules of detectMarkdownListMarker, read off the line.               *)

NoTerminator(s) == \A k \in 1..Len(s) : s[k] \notin LineTerminators

\* number of whitespace characters s begins with
Indent(s) == RunEnd(s, 0, Whitespace)

\* the first character after the indentation is a bullet
HasBullet(s) == Indent(s) < Len(s) /\ s[Indent(s) + 1] \in Bullets

\* offset of the first character after the bullet that is not whitespace
AfterBullet(s) == RunEnd(s, Indent(s) + 1, Whitespace)

\* a bullet followed by "[ ]", "[x]" or "[X]" (or a bracket pair around another
\* whitespace character)
IsCheckboxLine(s) ==
    /\ HasBullet(s)
    /\ AfterBullet(s) + 3 <= Len(s)
    /\ s[AfterBullet(s) + 1] = "["
    /\ s[AfterBullet(s) + 2] \in {"x", "X"} \cup Whitespace
    /\ s[AfterBullet(s) + 3] = "]"

\* a bullet followed by whitespace
IsUnorderedLine(s) == HasBullet(s) /\ AfterBullet(s) > Indent(s) + 1

\* offset of the first character after the digits that follow the indentation
AfterNumber(s) == RunEnd(s, Indent(s), Digits)

\* digits, a dot and whitespace
IsOrderedLine(s) ==
    /\ AfterNumber(s) > Indent(s)
    /\ AfterNumber(s) + 2 <= Len(s)
    /\ s[AfterNumber(s) + 1] = "."
    /\ s[AfterNumber(s) + 2] \in Whitespace

\* the marker is the line up to k and the whitespace that follows, the content
\* is the rest
SplitAfter(m, s, k) ==
    /\ m.matched
    /\ m.content = trimStart(Sub(s, k, Len(s)))
    /\ m.markerLength = Len(s) - Len(m.content)

\* C11: the rules are tried in the order checkbox, ordered, unordered and the
\* split of the first one that matches is returned: a bullet followed by "[ ]",
\* "[x]" or "[X]" gives the content after the bracket pair, "2. Short one."
\* gives the content "Short one." with markerLength 3, and a line that no rule
\* matches gives null
C11_RuleOrder ==
    (pc = "done" /\ NoTerminator(line)) =>
        /\ IsCheckboxLine(line) => SplitAfter(listMarkerMatch, line, AfterBullet(line) + 3)
        /\ IsOrderedLine(line) => SplitAfter(listMarkerMatch, line, AfterNumber(line) + 1)
        /\ (IsUnorderedLine(line) /\ ~IsCheckboxLine(line)) =>
               SplitAfter(listMarkerMatch, line, Indent(line) + 1)
        /\ (~IsCheckboxLine(line) /\ ~IsOrderedLine(line) /\ ~IsUnorderedLine(line)) =>
               listMarkerMatch = null
        /\ line = TwoShortOne =>
               listMarkerMatch = [matched |-> TRUE, content |-> ShortOne, markerLength |-> 3]

\* a line that the checkbox rule and the unordered rule both match
C11_Witness ==
    /\ pc = "done"
    /\ IsCheckboxLine(line)
    /\ IsUnorderedLine(line)
    /\ listMarkerMatch.matched
    /\ listMarkerMatch.content = <<"x">>

\* end of the longest prefix of s made of chevrons and whitespace around them,
\* from offset k on
RECURSIVE ChevronPrefix(_, _)
ChevronPrefix(s, k) ==
    LET a == RunEnd(s, k, Whitespace)
    IN  IF a < Len(s) /\ s[a + 1] = ">"
        THEN ChevronPrefix(s, RunEnd(s, a + 1, Whitespace))
        ELSE k

\* C12: a line that begins with one or more blockquote chevrons is recognised
\* by the list marker detector: the content is what follows the last chevron
\* and markerLength is the length of the chevron prefix
C12_BlockquoteRecognised ==
    (pc = "done" /\ NoTerminator(line) /\ ChevronPrefix(line, 0) > 0) =>
        /\ listMarkerMatch.matched
        /\ listMarkerMatch.markerLength = ChevronPrefix(line, 0)
        /\ listMarkerMatch.content = Sub(line, ChevronPrefix(line, 0), Len(line))

---------------------------------------------------------------------------
(* Segments and runs of terminal punctuation.                              *)

\* the offsets at which a maximal run of terminal characters of s begins
TerminalRuns(s) ==
    {a \in 0..(Len(s) - 1) : s[a + 1] \in Terminals /\ (a = 0 \/ s[a] \notin Terminals)}

\* the matches that share a character with the span a..b of the line
Touching(ms, a, b) == {i \in 1..Len(ms) : ms[i][1] < b /\ a < ms[i][2]}

\* C13: a maximal run of consecutive terminal punctuation ("...", "?!") ends
\* exactly one segment: one match holds the whole run, followed by whitespace
\* only, no match begins or ends inside the run, and no match is empty
C13_RunEndsOneSegment ==
    /\ \A i \in 1..Len(matches) : matches[i][1] < matches[i][2]
    /\ pc = "done" =>
           \A a \in TerminalRuns(scanLine) :
               LET b == RunEnd(scanLine, a, Terminals)
               IN  /\ Cardinality(Touching(matches, a, b)) = 1
                   /\ \A i \in Touching(matches, a, b) :
                          /\ matches[i][1] <= a
                          /\ b <= matches[i][2]
                          /\ \A k \in (b + 1)..matches[i][2] :
                                 scanLine[k] \in Whitespace

\* words, a run of two different terminal characters, and more words
C13_Witness ==
    /\ pc = "done"
    /\ Len(matches) = 2
    /\ \E a \in TerminalRuns(scanLine) :
           /\ a > 0
           /\ RunEnd(scanLine, a, Terminals) = a + 2
           /\ scanLine[a + 1] # scanLine[a + 2]
           /\ matches[1][2] >= a + 2

\* C14: computeDecorations is a function of text, settings and baseOffset: a
\* call returns the spans an earlier call with the same arguments returned,
\* whatever calls were made in between
C14_SameArgumentsSameSpans ==
    (pc = "done" /\ earlier # <<>> /\ SameArguments(earlier[1], text, settings, offset)) =>
        result = earlier[1].result

\* the same arguments a second time, after a call with other arguments
C14_Witness ==
    /\ pc = "done"
    /\ earlier # <<>>
    /\ SameArguments(earlier[1], text, settings, offset)
    /\ earlier[1].others
    /\ Len(result) > 0

Ordered(st) ==
    st.shortThreshold < st.mediumThreshold /\ st.mediumThreshold < st.longThreshold

\* C16: after validateThresholds returns, short < medium < long, whatever
\* three integers it was started with
C16_ValidateOrders == pc = "done" => Ordered(settings)

\* started with all three thresholds out of order, and with a negative one
C16_Witness ==
    /\ pc = "done"
    /\ given[1].longThreshold < given[1].mediumThreshold
    /\ given[1].mediumThreshold < given[1].shortThreshold
    /\ given[1].longThreshold < 0
    /\ settings # given[1]

\* C15: whenever the settings layer has computeDecorations called (on load,
\* after a slider change, a reset button or a commit of the long threshold
\* field, through saveSettings and the refresh of the enabled editors), the
\* thresholds passed satisfy short < medium < long
C15_PassedOrdered == passed # <<>> => Ordered(passed[1])

\* C17: the medium slider offers exactly the values short+1 .. long-1, so a
\* change of it cannot set medium to the long threshold or above
C17_MediumSliderRange ==
    limits # <<>> =>
        /\ limits[1].mediumMin = settings.shortThreshold + 1
        /\ limits[1].mediumMax = settings.longThreshold - 1

\* C18: toggleHighlighting flips the enabled state of the active editor only:
\* the enabled state and the decorations of every other editor stay, and
\* without an active markdown editor nothing changes
C18_ToggleActiveOnly ==
    [][toggleHighlighting =>
          /\ \A v \in Views \ {active} :
                 /\ editorHighlightingMap'[v] = editorHighlightingMap[v]
                 /\ sentenceHighlighterField'[v] = sentenceHighlighterField[v]
          /\ active = 0 => UNCHANGED vars
          /\ active # 0 =>
                 (editorHighlightingMap'[active] = "true") #
                     (editorHighlightingMap[active] = "true")]_vars

\* the active editor has been toggled while another editor is highlighted
C18_Witness ==
    /\ active # 0
    /\ active \in toggled
    /\ editorHighlightingMap[active] = "false"
    /\ \E v \in leaves \ {active} :
           /\ editorHighlightingMap[v] = "true"
           /\ sentenceHighlighterField[v] # <<>>

\* C19: the global default applies to new editors: every open editor that
\* was never toggled, one opened after the plugin loaded included, has the
\* highlighting state defaultHighlightingEnabled
C19_DefaultApplies ==
    \A v \in leaves \ toggled :
        (editorHighlightingMap[v] = "true") = defaultHighlightingEnabled

\* C20: an editor whose highlighting state is false or unset holds no
\* decorations, in every reachable state
C20_DisabledEmpty ==
    \A v \in Views :
        editorHighlightingMap[v] # "true" => sentenceHighlighterField[v] = <<>>

\* an editor that was highlighted and has been switched off, next to one that
\* is highlighted
C20_Witness ==
    \E v \in leaves, w \in leaves :
        /\ v \in toggled
        /\ editorHighlightingMap[v] = "false"
        /\ doc[v] # <<>>
        /\ editorHighlightingMap[w] = "true"
        /\ sentenceHighlighterField[w] # <<>>

\* C21: at the start of every line the cursor is the number of characters
\* that precede the line in the text; every piece advances it by its length,
\* line breaks, blank lines and list lines with empty content included
C21_CursorTracksText ==
    (pc = "loop" /\ idx <= Len(lines)) => currentOffset = StartOf(lines, idx)

\* the terminal characters of s are at its end
EndsInTerminals(s) ==
    \A k \in 1..(Len(s) - 1) : s[k] \in Terminals => s[k + 1] \in Terminals

\* C22: the content of a list line goes through the same segment extraction
\* as prose: every span is one segment, classified by its own word count, and
\* a list item of two sentences gives two spans
C22_ListItemSegments ==
    pc = "done" =>
        /\ \A i \in 1..Len(result) :
               /\ EndsInTerminals(result[i].sentence)
               /\ result[i].class =
                      getClassForSentence(countWords(result[i].sentence), settings)
        /\ text = ListScenarioText =>
               /\ Len(result) = 2
               /\ result[1].class = "sh-mini"
               /\ result[2].class = "sh-short"

C22_Witness ==
    /\ pc = "done"
    /\ text = ListScenarioText
    /\ Len(result) = 2
    /\ countWords(result[1].sentence) = 2
    /\ countWords(result[2].sentence) = 5

\* C25: the sentence-matching loop ends: every match is at least one
\* character long, so the scan position grows with every iteration and stays
\* within the line
C25_ScanAdvances ==
    [][(pc = "scan" /\ pc' = "scan") =>
          /\ lastIndex < lastIndex'
          /\ lastIndex' <= Len(scanLine)
          /\ Len(matches') = Len(matches) + 1]_vars

\* a line that took three iterations and then was exhausted
C25_Witness ==
    /\ pc = "done"
    /\ Len(matches) = 3
    /\ matches[3][2] = Len(scanLine)
    /\ lastIndex = 0

\* C27: every span lies inside the slice it was computed from:
\* baseOffset <= start < end <= baseOffset + text.length
C27_SpansInsideSlice ==
    pc = "done" =>
        \A i \in 1..Len(result) :
            /\ offset <= result[i].from
            /\ result[i].from < result[i].to
            /\ result[i].to <= offset + Len(text)

\* a span that ends where a slice with a positive baseOffset ends
C27_Witness ==
    /\ pc = "done"
    /\ offset > 0
    /\ Len(result) > 0
    /\ result[Len(result)].to = offset + Len(text)

\* C26: for a background lighter than 50 percent the text lightness chosen
\* by getContrastingTextColor is between 15 and 25 percent, for one of 50
\* percent or darker between 75 and 85 percent, whatever the background
C26_ContrastingLightness ==
    pc = "done" =>
        IF hexToHslLightness(backgroundColor) > Percent(50)
        THEN Percent(15) <= newLightness /\ newLightness <= Percent(25)
        ELSE Percent(75) <= newLightness /\ newLightness <= Percent(85)

Processed(v) == \A i \in 1..Len(updates[v]) : ~listens(updates[v][i])

\* C23: while highlighting is enabled for a view, once its update listener
\* has processed a document or viewport change the decorations of the view
\* are those of computeDecorations over its visible ranges, each with the
\* current settings and the start of the range as offset; while it is not
\* enabled the listener dispatches nothing
C23_ListenerKeepsDecorations ==
    \A v \in leaves :
        IF editorHighlightingMap[v] = "true"
        THEN Processed(v) =>
                 sentenceHighlighterField[v] =
                     fullDecorations(doc[v], visibleRanges[v], settings, 1)
        ELSE dispatches[v] = 0 /\ sentenceHighlighterField[v] = <<>>

\* an enabled view with two visible ranges after a scroll and an edit
C23_Witness ==
    /\ editorHighlightingMap[1] = "true"
    /\ transactions[1] = MaxTransactions
    /\ Len(visibleRanges[1]) = 2
    /\ updates[1] = <<>>
    /\ dispatches[1] > 0
    /\ Len(sentenceHighlighterField[1]) > 1

\* C29: the update listener does not feed itself: the update made by its
\* own dispatch makes it recompute nothing, so every document or viewport
\* change of an enabled view has exactly one dispatch and then nothing is
\* left to do
C29_OneDispatchPerChange ==
    \A v \in leaves :
        /\ dispatches[v] <= transactions[v]
        /\ Len(updates[v]) <= 1
        /\ (updates[v] = <<>> /\ editorHighlightingMap[v] = "true") =>
               dispatches[v] = transactions[v]

\* two changes, two dispatches, and the listener has seen both effect updates
C29_Witness ==
    /\ editorHighlightingMap[1] = "true"
    /\ transactions[1] = 2
    /\ dispatches[1] = 2
    /\ updates[1] = <<>>

\* the long threshold field is committed with value
Commits(value) == limits # <<>> /\ commitLong(value) /\ TabFrame

\* the commit leaves the thresholds alone and saves nothing: saveSettings
\* neither writes the data nor refreshes an editor
Rejected ==
    /\ settings' = settings
    /\ data' = data
    /\ passed' = <<>>
    /\ sentenceHighlighterField' = sentenceHighlighterField

ThresholdAction ==
    \/ shortSlider
    \/ mediumSlider
    \/ resetShort
    \/ resetMedium
    \/ resetLong
    \/ validateAndSave

\* C30: after the handler of a threshold control has finished, display at
\* its end included, the thresholds saveSettings stored last and those the
\* editors were refreshed with last are the thresholds in memory
C30_SavedIsInMemory ==
    [][ThresholdAction =>
          /\ data' = settings'
          /\ passed' # <<>> => passed'[1] = settings']_vars

====
